---- MODULE Spec2Model ----
(***************************************************************************)
(* A model of the substream engine (src/src/substream.rs), of the session  *)
(* controller's counter (src/src/context.rs) and of the known-address set  *)
(* (src/protocols/discovery/src/addr.rs).                                  *)
(*                                                                         *)
(* Substream::poll_next is one atomic action.  Every function of the       *)
(* substream is an operator from a record s of the fields it can touch to  *)
(* the SET of records it can leave behind: the set has more than one       *)
(* element where the outcome depends on something outside the substream    *)
(* (the sink's readiness, the framed stream, the session's closed flag).   *)
(* The field s.ret carries the function's return value.                    *)
(***************************************************************************)
EXTENDS Integers, Sequences, FiniteSets, TLC

\* ------------------------------------------------------------------ bounds
\* Message commands the service pushes over the substream's life.
MaxMsgs == 2
\* Frames the remote peer sends on the substream.
MaxFrames == 3
\* Capacity of each bounded channel (to a handler, to the Session).
ChanCap == 1
\* config.recv_event_size(), scaled down.
RecvEventSize == 1
\* config.send_event_size(), scaled down.
SendEventSize == 1
\* pending_data_size is an unsigned word: 2^w, scaled down.
UsizeMod == 64
\* Frames the remote peer sends when both user handlers are configured.
MaxFramesBoth == 1
\* Largest capacity an AddrKnown is built with.
MaxKnown == 2
\* Distinct addresses offered to AddrKnown::insert.
MaxAddrs == 3
\* Calls of AddrKnown::insert and AddrKnown::remove in one run.
MaxCalls == 4
\* Longest multiaddr, in components.
MaxComps == 4
\* Most socket addresses a lookup returns.
MaxIps == 2
\* The count at which PHandle shuts down (512 in test_block_send), scaled down.
CountTo == 2

VARIABLES
  \* Substream fields (substream.rs:70-94)
  high_write_buf, write_buf, dead, keep_buffer, event,
  event_sender, service_proto_sender, session_proto_sender,
  handlers,        \* which of the two Option<Buffer<..>> senders are Some
  env,             \* what the environment of this run can do (see EnvKinds)
  \* the workload of a run: how many Message commands the service pushes and
  \* how many frames the remote peer sends
  n_msgs, n_frames,
  \* SessionContext atomics (context.rs:77-78)
  closed, pending_data_size,
  \* SessionController.buffer (context.rs:27): the two queues of the PriorityBuffer
  buffer,
  \* the substream's command receiver (event_receiver) and whether it was closed
  event_receiver, rx_closed,
  \* the three channels the substream writes to: what entered each, in
  \* order, and whether its receiver still exists
  chan,
  \* detached tasks spawned by close_proto_stream: <<[ch, ev]>>
  tasks,
  \* the framed sink: frames handed to start_send, in order
  sent,
  \* history: frames pushed into the write buffers, in order
  enq,
  \* the framed stream: frames it has yielded so far
  n_read,
  \* life cycle of the Stream: "new" (built), "open" (proto_open done), "done"
  \* (poll_next returned Ready(None))
  phase,
  \* history of the last poll: what recv_frame saw and did, teardown counts
  last_recv, n_close, hist,
  \* Message commands pushed so far by the service
  n_pushed,
  \* AddrKnown fields (addr.rs:57-62)
  max_known, addrs, addr_times, time_addrs,
  \* the monotonic clock behind Instant::now(), and the calls made so far:
  \* <<[op, key, at]>>
  clock, calls,
  \* PHandle.count (test_block_send.rs:36), and how many events of its
  \* channel the handler has taken
  count, n_handled,
  \* a multiaddr, as the sequence of its components
  maddr,
  \* what DNSResolver::new made of it (dns.rs:18-25), what the blocking
  \* lookup produced, and what the resolver future completed with
  resolver, lookup, dns_ret,
  \* what ConnectableAddr::from made of it (addr.rs:112-115)
  caddr

vars == << high_write_buf, write_buf, dead, keep_buffer, event, event_sender,
           service_proto_sender, session_proto_sender, handlers, env,
           n_msgs, n_frames, closed, pending_data_size, buffer, event_receiver, rx_closed, chan, tasks,
           sent, enq, n_read, phase, last_recv, n_close, hist,
           n_pushed, max_known, addrs, addr_times, time_addrs, clock, calls,
           count, n_handled, maddr, resolver, lookup, dns_ret, caddr >>

dns_vars == << maddr, resolver, lookup, dns_ret, caddr >>

test_vars == << count, n_handled >>

addr_vars == << max_known, addrs, addr_times, time_addrs, clock, calls >>

\* ----------------------------------------------------------------- helpers
Lanes == {"High", "Normal"}
Chans == {"svc", "ses", "up"}

Ev(t, d) == [t |-> t, d |-> d]

\* data.len(): frame f is f bytes long, so that frames differ in length.
FrameLen(f) == f

RECURSIVE SelectLane(_, _)
SelectLane(log, lane) ==
  IF log = << >> THEN << >>
  ELSE IF Head(log).lane = lane
       THEN << Head(log).f >> \o SelectLane(Tail(log), lane)
       ELSE SelectLane(Tail(log), lane)

RECURSIVE SelectData(_, _)
SelectData(evs, t) ==
  IF evs = << >> THEN << >>
  ELSE IF Head(evs).t = t
       THEN << Head(evs).d >> \o SelectData(Tail(evs), t)
       ELSE SelectData(Tail(evs), t)

IsPrefix(a, b) == Len(a) <= Len(b) /\ SubSeq(b, 1, Len(a)) = a

Count(evs, t) == Len(SelectData(evs, t))

Bind(S, F(_)) == UNION { F(x) : x \in S }

Ret(s, r) == [s EXCEPT !.ret = r]

\* ------------------------------------------------- Buffer<T> (buffer.rs)
\* The channel behind each buffer of the substream.
ChanOf(b) ==
  CASE b = "event_sender" -> "up"
    [] b = "service_proto_sender" -> "svc"
    [] b = "session_proto_sender" -> "ses"

\* What the world around the substream can do.  A run allows some of these:
\*   user_stalled   the user's handlers never read their channels
\*   user_slow      a handler channel can be found full
\*   user_gone      a handler's receiver can be found dropped
\*   session_slow   the channel to the Session can be found full
\*   session_gone   the Session's receiver can be found dropped
\*   session_close  the Session can set the closed flag
\*   sender_drop    the Session can drop its sender of the command channel
\*   close_cmd      the Session can send a Close command
\*   sink_pending   the framed sink can be not ready, its flush pending
\*   sink_err       the framed sink can fail
\*   eof            the framed stream can end (or fail with a quiet error kind)
\*   codec_err      the framed stream can fail with another error kind
\*   before_receive_err  the before_receive function can fail
\* Two more kinds stand alone: "phandle", the user of test_block_send, who
\* takes the events of the service handler's channel one at a time, and
\* "sink_stuck", a framed sink that is never ready (the remote peer has
\* stopped reading).
EnvKinds ==
  { "user_stalled", "user_slow", "user_gone", "session_slow", "session_gone",
    "session_close", "sender_drop", "close_cmd", "sink_pending", "sink_err",
    "eof", "codec_err", "before_receive_err" }

\* Whether channel ch can take one more item now.  A receiver that reads
\* makes room at moments of its own choosing; a user handler that never
\* reads leaves its channel full once it holds ChanCap items.
ChanRoom(s, ch) ==
  IF ch = "up"
  THEN IF "session_slow" \in env THEN BOOLEAN ELSE {TRUE}
  ELSE IF "phandle" \in env
       THEN { Len(s.chan[ch].log) - (IF ch = "svc" THEN n_handled ELSE 0) < ChanCap }
  ELSE IF "user_stalled" \in env THEN { Len(s.chan[ch].log) < ChanCap }
       ELSE IF "user_slow" \in env THEN BOOLEAN ELSE {TRUE}

\* Whether the receiver of channel ch can be found dropped.
ChanCanDrop(ch) ==
  IF ch = "up" THEN "session_gone" \in env ELSE "user_gone" \in env

BufferPush(s, b, ev) == [s EXCEPT ![b] = Append(@, ev)]

BufferClear(s, b) == [s EXCEPT ![b] = << >>]

\* The loop of try_send: hand items to the channel, oldest first, while it
\* takes them.
RECURSIVE BufferDrain(_, _)
BufferDrain(s, b) ==
  LET ch == ChanOf(b) IN
  IF s[b] = << >> THEN { Ret(s, "Ok") }
  ELSE (IF FALSE \in ChanRoom(s, ch) THEN { Ret(s, "Pending") } ELSE {})
       \cup (IF TRUE \in ChanRoom(s, ch)
             THEN BufferDrain([s EXCEPT ![b] = Tail(@),
                                 !.chan[ch].log = Append(@, Head(s[b]))], b)
             ELSE {})

\* try_send.  With nothing to send it is Ok; with the receiver gone it is
\* Disconnect (a receiver may be found gone at any call, and stays gone: what
\* enters a channel after its receiver went is never seen, so the model lets
\* the receiver go between calls only).
BufferTrySend(s, b) ==
  LET ch == ChanOf(b) IN
  IF s[b] = << >> THEN { Ret(s, "Ok") }
  ELSE IF ~s.chan[ch].alive THEN { Ret(s, "Disconnect") }
  ELSE BufferDrain(s, b)
       \cup (IF ChanCanDrop(ch)
             THEN { [s EXCEPT !.chan[ch].alive = FALSE, !.ret = "Disconnect"] }
             ELSE {})

\* take() followed by events.push_back(ev...) and tokio::spawn(send_all):
\* the pending items leave the buffer and a detached task owns them.
BufferTakeSpawn(s, b, more) ==
  [s EXCEPT ![b] = << >>,
            !.tasks = Append(@, [ch |-> ChanOf(b), ev |-> s[b] \o more])]

\* ------------------------------------------------------------- Substream
\* closed.load(SeqCst): the Session may set the flag at any moment, so a
\* load either sees the value as it was or sees it just set.
LoadClosed(s) ==
  IF s.closed \/ "session_close" \notin env THEN {s}
  ELSE {s, [s EXCEPT !.closed = TRUE]}

push_back(s, priority, frame) ==
  IF priority = "High"
  THEN [s EXCEPT !.high_write_buf = Append(@, frame)]
  ELSE [s EXCEPT !.write_buf = Append(@, frame)]

\* A faulty push_front: the frame goes behind the frames that wait.
push_front_behind(s, priority, frame) == push_back(s, priority, frame)

push_front(s, priority, frame) ==
  IF priority = "High"
  THEN [s EXCEPT !.high_write_buf = << frame >> \o @]
  ELSE [s EXCEPT !.write_buf = << frame >> \o @]

\* SessionContext::decr_pending_data_size: fetch_sub wraps.
decr_pending_data_size(s, n) ==
  [s EXCEPT !.pending_data_size = (@ - n) % UsizeMod]

\* The sink accepts the frame (poll_ready Ready, start_send Ok).  The log
\* entry also records whether a high frame was waiting at that moment.
SinkAccept(s, frame, priority) ==
  [decr_pending_data_size(s, FrameLen(frame)) EXCEPT
     !.sent = Append(@, [lane |-> priority, f |-> frame,
                         hp |-> s.high_write_buf # << >>]),
     !.flushed = FALSE,
     !.ret = "false"]

SinkError(s) == [s EXCEPT !.hist = @ \cup {"sink_err"}, !.ret = "err"]

\* A faulty sink: poll_ready can be Pending right after a completed flush.
poll_ready_pending_always(s) == "sink_pending" \in env

\* Whether poll_ready can be Pending: not right after a completed flush,
\* when the Framed sink is ready.
poll_ready_pending(s) == ~s.flushed /\ "sink_pending" \in env

\* A faulty send_inner: the counter is also decremented for a frame that is
\* pushed back.
send_inner_decr_always(s, frame, priority) ==
  IF "sink_stuck" \in env
  THEN { Ret(push_front(decr_pending_data_size(s, FrameLen(frame)),
                        priority, frame), "true") }
  ELSE
  { SinkAccept(s, frame, priority) }
  \cup (IF "sink_err" \in env THEN { SinkError(s) } ELSE {})
  \cup (IF s.flushed \/ "sink_pending" \notin env THEN {}
        ELSE { Ret(push_front(decr_pending_data_size(s, FrameLen(frame)),
                              priority, frame), "true") })

\* poll_ready can be Ready, Pending or fail (and start_send can fail).
send_inner_try(s, frame, priority) ==
  IF "sink_stuck" \in env THEN { Ret(push_front(s, priority, frame), "true") }
  ELSE
  { SinkAccept(s, frame, priority) }
  \cup (IF "sink_err" \in env THEN { SinkError(s) } ELSE {})
  \cup (IF poll_ready_pending(s)
        THEN { Ret(push_front(s, priority, frame), "true") }
        ELSE {})

\* send_inner, counted: one call of send_data has two calls of send_inner
\* for each frame it starts with (s.fuel); a call beyond them is cut off and
\* noted in the history.
send_inner(s, frame, priority) ==
  IF s.fuel = 0
  THEN { [s EXCEPT !.hist = @ \cup {"spin"}, !.ret = "err"] }
  ELSE send_inner_try([s EXCEPT !.fuel = @ - 1], frame, priority)

poll_complete(s) ==
  IF "sink_stuck" \in env THEN { Ret(s, "true") }
  ELSE
  { [s EXCEPT !.flushed = TRUE, !.ret = "false"] }
  \cup (IF "sink_err" \in env THEN { SinkError(s) } ELSE {})
  \cup (IF "sink_pending" \in env THEN { Ret(s, "true") } ELSE {})

\* `if self.send_inner(..)? && self.poll_complete(cx)? { return Ok(()) }`
\* applied to one result r of send_inner; Cont is the rest of the loop.  The
\* history notes a frame that was pushed back and is popped again because
\* the flush completed.
AfterSendInner(r, Cont(_)) ==
  CASE r.ret = "err" -> {r}
    [] r.ret = "false" -> Cont(r)
    [] r.ret = "true" ->
         Bind(poll_complete(r),
              LAMBDA q : CASE q.ret = "err" -> {q}
                           [] q.ret = "true" ->
                                { [q EXCEPT !.ret = "ok", !.bp = TRUE] }
                           [] q.ret = "false" ->
                                Cont([q EXCEPT !.hist = @ \cup {"repop"}]))

\* substream.rs:169-172, after both loops
send_data_tail(s) ==
  { IF q.ret = "err" THEN q ELSE Ret(q, "ok") : q \in poll_complete(s) }

RECURSIVE send_data_normal(_)
send_data_normal(s) ==
  IF s.write_buf = << >> THEN send_data_tail(s)
  ELSE LET frame == Head(s.write_buf)
           s1 == [s EXCEPT !.write_buf = Tail(@)]
       IN Bind(send_inner(s1, frame, "Normal"),
               LAMBDA r : AfterSendInner(r, send_data_normal))

\* A faulty high loop: it leaves the high queue alone and starts on the
\* normal one.
send_data_skip_high(s) == send_data_normal(s)

RECURSIVE send_data_high(_)
send_data_high(s) ==
  IF s.high_write_buf = << >> THEN send_data_normal(s)
  ELSE LET frame == Head(s.high_write_buf)
           s1 == [s EXCEPT !.high_write_buf = Tail(@)]
       IN Bind(send_inner(s1, frame, "High"),
               LAMBDA r : AfterSendInner(r, send_data_high))

\* ret is "ok" or "err".  The history notes a return that leaves frames
\* behind without having met back-pressure with the flush pending (s.bp).
send_data(s) ==
  { IF r.ret = "ok" /\ ~r.bp
       /\ (r.high_write_buf # << >> \/ r.write_buf # << >>)
    THEN [r EXCEPT !.hist = @ \cup {"send_data_left"}]
    ELSE r
    : r \in send_data_high(
               [s EXCEPT !.fuel = 2 * (Len(s.high_write_buf) + Len(s.write_buf)),
                         !.bp = FALSE]) }

output(s) ==
  { IF r.ret = "Disconnect" THEN [r EXCEPT !.dead = TRUE] ELSE r
    : r \in BufferTrySend(s, "event_sender") }

output_event(s, ev) == output(BufferPush(s, "event_sender", ev))

\* poll_shutdown of the underlying StreamHandle; its error is only logged.
\* The history notes a shutdown that finds high-priority frames unsent.
poll_shutdown(s) ==
  [s EXCEPT !.hist = @ \cup (IF s.high_write_buf # << >>
                             THEN {"shutdown_high_pending"} ELSE {})]

\* A faulty close_proto_stream: Close goes up whatever the closed flag is.
close_proto_stream_always_close(s) ==
  LET s0 == poll_shutdown([s EXCEPT !.rx_closed = TRUE, !.n_close = @ + 1])
      s1 == IF "service" \in handlers
            THEN BufferTakeSpawn(s0, "service_proto_sender",
                                 << Ev("Disconnected", 0) >>)
            ELSE s0
      S2 == IF "session" \in handlers
            THEN { BufferTakeSpawn(x, "session_proto_sender",
                        << Ev("Closed", 0) >> \o
                        (IF x.closed THEN << Ev("Disconnected", 0) >> ELSE << >>))
                   : x \in LoadClosed(s1) }
            ELSE {s1}
  IN { BufferTakeSpawn(x, "event_sender", << Ev("Close", 0) >>)
       : x \in Bind(S2, LoadClosed) }

\* ret is not meaningful after close_proto_stream
close_proto_stream(s) ==
  LET s0 == poll_shutdown([s EXCEPT !.rx_closed = TRUE, !.n_close = @ + 1])
      s1 == IF "service" \in handlers
            THEN BufferTakeSpawn(s0, "service_proto_sender",
                                 << Ev("Disconnected", 0) >>)
            ELSE s0
      S2 == IF "session" \in handlers
            THEN { BufferTakeSpawn(x, "session_proto_sender",
                        << Ev("Closed", 0) >> \o
                        (IF x.closed THEN << Ev("Disconnected", 0) >> ELSE << >>))
                   : x \in LoadClosed(s1) }
            ELSE {s1}
  IN Bind(Bind(S2, LoadClosed),
          LAMBDA x :
            IF x.closed THEN output(x)
            ELSE { BufferTakeSpawn(x, "event_sender", << Ev("Close", 0) >>) })

\* A faulty error_close: it tears down without an Error event.
error_close_silent(s) == close_proto_stream([s EXCEPT !.dead = TRUE])

\* A faulty error_close: the Error event is pushed twice.
error_close_twice(s) ==
  LET s1 == [s EXCEPT !.dead = TRUE]
      s2 == IF ~keep_buffer THEN BufferClear(s1, "event_sender") ELSE s1
  IN close_proto_stream(
       BufferPush(BufferPush(s2, "event_sender", Ev("Error", 0)),
                  "event_sender", Ev("Error", 0)))

error_close(s) ==
  LET s1 == [s EXCEPT !.dead = TRUE]
      s2 == IF ~keep_buffer THEN BufferClear(s1, "event_sender") ELSE s1
  IN close_proto_stream(BufferPush(s2, "event_sender", Ev("Error", 0)))

handle_proto_event(s, ev, priority) ==
  CASE ev.t = "Message" ->
         LET s1 == [push_back(s, priority, ev.d) EXCEPT
                      !.enq = Append(@, [lane |-> priority, f |-> ev.d])]
         IN Bind(send_data(s1),
                 LAMBDA r :
                   IF r.ret = "err"
                   THEN { [x EXCEPT !.dead = TRUE,
                                    !.hist = @ \cup {"msg_send_err"}]
                          : x \in output_event(r, Ev("Error", 0)) }
                   ELSE {r})
    [] ev.t = "Close" ->
         { [s EXCEPT !.write_buf = << >>, !.dead = TRUE,
                     !.hist = @ \cup {"close_cmd"}] }
    [] OTHER -> {s}

\* A faulty try_send_user: a handler found gone does not end the substream.
try_send_user_ignore(s, b, kind) ==
  IF kind \in handlers
  THEN { IF r.ret = "Disconnect"
         THEN [r EXCEPT !.hist = @ \cup {"handler_gone"}]
         ELSE r
         : r \in BufferTrySend(s, b) }
  ELSE {s}

\* buffer.try_send(cx) on one user-level sender, when it is Some.  The
\* history notes a handler found gone.
try_send_user(s, b, kind) ==
  IF kind \in handlers
  THEN { IF r.ret = "Disconnect"
         THEN [r EXCEPT !.dead = TRUE, !.hist = @ \cup {"handler_gone"}]
         ELSE r
         : r \in BufferTrySend(s, b) }
  ELSE {s}

distribute_to_user_level(s) ==
  Bind(Bind(try_send_user(s, "service_proto_sender", "service"),
            LAMBDA a : try_send_user(a, "session_proto_sender", "session")),
       LAMBDA b : IF b.dead THEN output(b) ELSE {b})

\* A faulty gate: it lets one more frame pile up before it stops the commands.
send_gate_late(s) == Len(s.write_buf) > SendEventSize + 1

\* The downward gate of recv_event (substream.rs:330)
send_gate(s) == Len(s.write_buf) > SendEventSize

\* The command receiver yields the head of lane: the history notes a
\* command taken while write_buf is over send_event_size, and one taken
\* after a user handler was found gone.
Dequeue(s, lane) ==
  [s EXCEPT !.event_receiver[lane] = Tail(@),
            !.hist = @ \cup (IF Len(s.write_buf) > SendEventSize
                             THEN {"cmd_over_gate"} ELSE {})
                       \cup (IF "handler_gone" \in s.hist
                             THEN {"cmd_after_gone"} ELSE {})]

\* priority_mpsc::Receiver::poll_next: the high lane first
recv_event(s) ==
  IF s.dead THEN { Ret(s, "None") }
  ELSE IF send_gate(s)
  THEN { [s EXCEPT !.hist = @ \cup {"send_gate"}, !.ret = "Pending"] }
  ELSE LET q == s.event_receiver IN
       IF q.High # << >>
       THEN { Ret(r, "Some") :
              r \in handle_proto_event(Dequeue(s, "High"), Head(q.High), "High") }
       ELSE IF q.Normal # << >>
       THEN { Ret(r, "Some") :
              r \in handle_proto_event(Dequeue(s, "Normal"),
                                       Head(q.Normal), "Normal") }
       \* nothing queued: Pending, or Ready(None) when the Session has
       \* dropped its sender
       ELSE { Ret(s, "Pending") }
            \cup (IF "sender_drop" \in env
                  THEN { poll_shutdown([s EXCEPT !.dead = TRUE, !.ret = "None"]) }
                  ELSE {})

\* A faulty gate: it lets one more event pile up before it stops the reads.
recv_gate_late(s) == Len(s.event_sender) > RecvEventSize + 1

\* The upward gate of recv_frame (substream.rs:356)
recv_gate(s) == Len(s.event_sender) > RecvEventSize

\* A faulty push_received: the new event jumps the queue of each handler.
push_received_front(s, data) ==
  [s EXCEPT
     !.service_proto_sender =
        IF "service" \in handlers THEN << Ev("Received", data) >> \o @ ELSE @,
     !.session_proto_sender =
        IF "session" \in handlers THEN << Ev("Received", data) >> \o @ ELSE @]

\* substream.rs:379-388
push_received(s, data) ==
  LET a == IF "service" \in handlers
           THEN BufferPush(s, "service_proto_sender", Ev("Received", data))
           ELSE s
  IN IF "session" \in handlers
     THEN BufferPush(a, "session_proto_sender", Ev("Received", data))
     ELSE a

\* Poll::Ready(Some(Ok(data))): before_receive either fails or passes the frame on
recv_frame_data(s) ==
  LET data == s.n_read + 1
      s1 == [s EXCEPT !.n_read = data,
                      !.hist = @ \cup (IF "handler_gone" \in s.hist
                                       THEN {"read_after_gone"} ELSE {})]
      ok == Bind(distribute_to_user_level(push_received(s1, data)),
                 LAMBDA d : { Ret(x, "Some")
                              : x \in IF event
                                      THEN output_event(d, Ev("Message", data))
                                      ELSE {d} })
  IN ok \cup (IF "before_receive_err" \in env
              THEN { Ret([x EXCEPT !.hist = @ \cup {"before_receive_err"}], "None")
                     : x \in error_close(s1) }
              ELSE {})

recv_frame(s) ==
  LET over == Len(s.event_sender) > RecvEventSize
      Note(x, polled) == [x EXCEPT !.last_recv =
                            [over |-> over, dead |-> s.dead, polled |-> polled,
                             ret |-> x.ret]]
  IN IF s.dead THEN { Note(Ret(s, "None"), FALSE) }
     ELSE IF recv_gate(s) THEN { Note(Ret(s, "Pending"), FALSE) }
     ELSE { Note(x, TRUE) :
            x \in (IF s.n_read < n_frames THEN recv_frame_data(s) ELSE {})
                  \cup { Ret(s, "Pending") }
                  \* Poll::Ready(None), and the five quiet error kinds
                  \cup (IF "eof" \in env
                        THEN { [s EXCEPT !.dead = TRUE, !.ret = "None",
                                         !.hist = @ \cup {"quiet_err"}] }
                        ELSE {})
                  \* any other error kind
                  \cup (IF "codec_err" \in env
                        THEN { Ret([x EXCEPT !.hist = @ \cup {"codec_err"}], "None")
                               : x \in error_close(s) }
                        ELSE {}) }

\* ret is "ok" or "err"
flush(s) ==
  LET A == IF (("service" \in handlers) /\ s.service_proto_sender # << >>)
              \/ (("session" \in handlers) /\ s.session_proto_sender # << >>)
           THEN distribute_to_user_level(s)
           ELSE {s}
  IN Bind(A, LAMBDA a :
       IF a.event_sender # << >> \/ a.write_buf # << >>
          \/ a.high_write_buf # << >>
       THEN Bind(output(a), send_data)
       ELSE { Ret(a, "ok") })

\* A faulty tail: event_sender is never cleared.
poll_next_tail_keep(s, is_pending) ==
  Bind(IF s.dead THEN {s} ELSE LoadClosed(s),
       LAMBDA x :
         IF x.dead \/ x.closed
         THEN { Ret(y, "None") : y \in close_proto_stream(x) }
         ELSE { Ret(x, IF is_pending THEN "Pending" ELSE "Some") })

\* substream.rs:498-514, given the results of recv_frame and recv_event
poll_next_tail(s, is_pending) ==
  Bind(IF s.dead THEN {s} ELSE LoadClosed(s),
       LAMBDA x :
         IF x.dead \/ x.closed
         THEN { Ret(y, "None") :
                y \in close_proto_stream(IF ~keep_buffer
                                         THEN BufferClear(x, "event_sender")
                                         ELSE x) }
         ELSE { Ret(x, IF is_pending THEN "Pending" ELSE "Some") })

poll_next_body(s) ==
  Bind(flush(s),
       LAMBDA f :
         IF f.ret = "err"
         THEN { Ret([y EXCEPT !.hist = @ \cup {"flush_err"}], "None")
                : y \in error_close(f) }
         ELSE Bind(recv_frame(f),
                   LAMBDA a :
                     Bind(recv_event(a),
                          LAMBDA b :
                            poll_next_tail(b, a.ret = "Pending"
                                              /\ b.ret = "Pending"))))

\* ret is "None" (the stream is finished), "Pending" or "Some"
poll_next(s) ==
  Bind(IF s.dead THEN {s} ELSE LoadClosed(s),
       LAMBDA x :
         IF x.dead \/ x.closed
         THEN { Ret(y, "None") : y \in close_proto_stream(x) }
         ELSE poll_next_body(x))

\* ------------------------------------------------------------ the machine
\* The fields poll_next can touch, as one record, and back.
St ==
  [ high_write_buf |-> high_write_buf, write_buf |-> write_buf, dead |-> dead,
    event_sender |-> event_sender,
    service_proto_sender |-> service_proto_sender,
    session_proto_sender |-> session_proto_sender,
    closed |-> closed, pending_data_size |-> pending_data_size,
    event_receiver |-> event_receiver, rx_closed |-> rx_closed,
    chan |-> chan, tasks |-> tasks, sent |-> sent, enq |-> enq,
    n_read |-> n_read, last_recv |-> last_recv, n_close |-> n_close,
    hist |-> hist, flushed |-> FALSE, fuel |-> 0, bp |-> FALSE, ret |-> "" ]

Commit(r) ==
  /\ high_write_buf' = r.high_write_buf
  /\ write_buf' = r.write_buf
  /\ dead' = r.dead
  /\ event_sender' = r.event_sender
  /\ service_proto_sender' = r.service_proto_sender
  /\ session_proto_sender' = r.session_proto_sender
  /\ closed' = r.closed
  /\ pending_data_size' = r.pending_data_size
  /\ event_receiver' = r.event_receiver
  /\ rx_closed' = r.rx_closed
  /\ chan' = r.chan
  /\ tasks' = r.tasks
  /\ sent' = r.sent
  /\ enq' = r.enq
  /\ n_read' = r.n_read
  /\ last_recv' = r.last_recv
  /\ n_close' = r.n_close
  /\ hist' = r.hist

NoRecv == [over |-> FALSE, dead |-> FALSE, polled |-> FALSE, ret |-> "None"]

\* ---------------------------------------------- AddrKnown (addr.rs:57-103)
AddrKeys == 1..MaxAddrs

EmptyMap == [x \in {} |-> 0]

\* HashMap/BTreeMap::insert(k, v): an existing entry for k is replaced
MapInsert(m, k, v) == [x \in DOMAIN m \cup {k} |-> IF x = k THEN v ELSE m[x]]

\* HashMap/BTreeMap::remove(k)
MapRemove(m, k) == [x \in DOMAIN m \ {k} |-> m[x]]

\* A faulty choice of the entry to evict: the one with the largest Instant.
LastTime(m) == CHOOSE x \in DOMAIN m : \A y \in DOMAIN m : y <= x

\* self.time_addrs.iter().next(): the entry with the smallest Instant
FirstTime(m) == CHOOSE x \in DOMAIN m : \A y \in DOMAIN m : x <= y

\* AddrKnown::new(max_known)
AddrNew(n) ==
  /\ max_known = n
  /\ addrs = {}
  /\ addr_times = EmptyMap
  /\ time_addrs = EmptyMap
  /\ clock = 0
  /\ calls = << >>

\* AddrKnown::insert.  Instant::now() never goes back, and two calls may
\* read the same Instant.
insert(key) ==
  /\ Len(calls) < MaxCalls
  /\ \E now \in {clock, clock + 1} :
       LET addrs1 == addrs \cup {key}
           time_addrs1 == MapInsert(time_addrs, now, key)
           addr_times1 == MapInsert(addr_times, key, now)
           first_time == FirstTime(time_addrs1)
           first_key == time_addrs1[first_time]
       IN /\ clock' = now
          /\ calls' = Append(calls, [op |-> "insert", key |-> key, at |-> now])
          /\ IF Cardinality(addrs1) > max_known
             THEN /\ addrs' = addrs1 \ {first_key}
                  /\ addr_times' = MapRemove(addr_times1, first_key)
                  /\ time_addrs' = MapRemove(time_addrs1, first_time)
             ELSE /\ addrs' = addrs1
                  /\ addr_times' = addr_times1
                  /\ time_addrs' = time_addrs1
  /\ UNCHANGED max_known

\* AddrKnown::contains
contains(addr) == addr \in addrs

\* AddrKnown::remove, for one address of the iterator
remove(addr) ==
  /\ Len(calls) < MaxCalls
  /\ calls' = Append(calls, [op |-> "remove", key |-> addr, at |-> clock])
  /\ addrs' = addrs \ {addr}
  /\ addr_times' = MapRemove(addr_times, addr)
  /\ time_addrs' = IF addr \in DOMAIN addr_times
                   THEN MapRemove(time_addrs, addr_times[addr])
                   ELSE time_addrs
  /\ UNCHANGED << max_known, clock >>

\* The substream as SubstreamBuilder::build leaves it (substream.rs:598-623),
\* with empty channels around it.
Built ==
  /\ high_write_buf = << >>
  /\ write_buf = << >>
  /\ dead = FALSE
  /\ event_sender = << >>
  /\ service_proto_sender = << >>
  /\ session_proto_sender = << >>
  /\ closed = FALSE
  /\ pending_data_size = 0
  /\ buffer = [High |-> << >>, Normal |-> << >>]
  /\ event_receiver = [High |-> << >>, Normal |-> << >>]
  /\ rx_closed = FALSE
  /\ chan = [c \in Chans |-> [log |-> << >>, alive |-> TRUE]]
  /\ tasks = << >>
  /\ sent = << >>
  /\ enq = << >>
  /\ n_read = 0
  /\ phase = "new"
  /\ last_recv = NoRecv
  /\ n_close = 0
  /\ hist = {}
  /\ n_pushed = 0
  /\ count = 0
  /\ n_handled = 0

\* ------------------------------------------------------------- multiaddrs
\* A component of a multiaddr (a Protocol value): its kind and its argument.
Comp(k, v) == [k |-> k, v |-> v]

\* The components a multiaddr of this model is made of.
Components ==
  { Comp("dns4", "a"), Comp("dns6", "b"), Comp("ip4", "1.2.3.4"),
    Comp("ip6", "::2"), Comp("tls", "sni"), Comp("tcp", "80"),
    Comp("tcp", "81"), Comp("ws", ""), Comp("p2p", "id") }

Multiaddrs == UNION { [1..n -> Components] : n \in 0..MaxComps }

\* The socket addresses a lookup can return.
Ips == { Comp("ip4", "127.0.0.1"), Comp("ip6", "::1") }

\* utils::is_ws: the multiaddr has a ws component
is_ws(addr) == \E i \in 1..Len(addr) : addr[i].k = "ws"

\* utils::extract_peer_id: the peer id of the multiaddr's p2p component
extract_peer_id(addr) ==
  IF \E i \in 1..Len(addr) : addr[i].k = "p2p"
  THEN addr[CHOOSE i \in 1..Len(addr) :
              /\ addr[i].k = "p2p"
              /\ \A j \in 1..(i - 1) : addr[j].k # "p2p"].v
  ELSE "None"

\* utils::socketaddr_to_multiaddr: /ip4|ip6/<ip>/tcp/<port>
socketaddr_to_multiaddr(address) ==
  << address.ip, Comp("tcp", address.port) >>

\* (&domain[..], port).to_socket_addrs(): every address it returns has the
\* port it was given.
to_socket_addrs(port) ==
  { [i \in 1..Len(f) |-> [ip |-> f[i], port |-> port]] :
      f \in UNION { [1..n -> Ips] : n \in 0..MaxIps } }

\* An Option<DNSResolver> that is not Some, or not yet computed.
NoResolver(t) ==
  [t |-> t, source_address |-> << >>, peer_id |-> "None", ws |-> FALSE,
   port |-> "", domain |-> "", join_handle |-> "None"]

\* The loop of DNSResolver::new (dns.rs:33-53) from component i on: the
\* (domain, port) it breaks with, or the early return of a `?`.
RECURSIVE new_loop(_, _)
new_loop(addr, i) ==
  IF i > Len(addr) THEN [t |-> "break", domain |-> "None", port |-> "None"]
  ELSE IF addr[i].k \notin {"dns4", "dns6"} THEN new_loop(addr, i + 1)
  ELSE IF i + 1 > Len(addr) THEN [t |-> "return", domain |-> "None", port |-> "None"]
  ELSE IF addr[i + 1].k = "tcp"
       THEN [t |-> "break", domain |-> addr[i].v, port |-> addr[i + 1].v]
       ELSE new_loop(addr, i + 2)

\* DNSResolver::new (dns.rs:30-66)
DNSResolver_new(source_address) ==
  LET r == new_loop(source_address, 1)
  IN IF r.t = "break" /\ r.domain # "None" /\ r.port # "None"
     THEN [t |-> "Some", source_address |-> source_address,
           peer_id |-> extract_peer_id(source_address),
           ws |-> is_ws(source_address), port |-> r.port,
           domain |-> r.domain, join_handle |-> "None"]
     ELSE NoResolver("None")

\* The value a poll of the resolver returns.
DnsRet(t, addr, kind) == [t |-> t, addr |-> addr, kind |-> kind]

\* A faulty new_addr: the last address of the lookup is used.
new_addr_last(r, iter) ==
  IF iter # << >>
  THEN LET address == socketaddr_to_multiaddr(iter[Len(iter)])
           with_ws == IF r.ws THEN Append(address, Comp("ws", "")) ELSE address
       IN DnsRet("Ok", IF r.peer_id # "None"
                       THEN Append(with_ws, Comp("p2p", r.peer_id))
                       ELSE with_ws, "")
  ELSE DnsRet("Err", r.source_address, "InvalidData")

\* A faulty new_addr: the ws component is not put back.
new_addr_no_ws(r, iter) ==
  IF iter # << >>
  THEN LET address == socketaddr_to_multiaddr(Head(iter))
       IN DnsRet("Ok", IF r.peer_id # "None"
                       THEN Append(address, Comp("p2p", r.peer_id))
                       ELSE address, "")
  ELSE DnsRet("Err", r.source_address, "InvalidData")

\* DNSResolver::new_addr (dns.rs:68-91), for the resolver r
new_addr(r, iter) ==
  IF iter # << >>
  THEN LET address == socketaddr_to_multiaddr(Head(iter))
           with_ws == IF r.ws THEN Append(address, Comp("ws", "")) ELSE address
       IN DnsRet("Ok", IF r.peer_id # "None"
                       THEN Append(with_ws, Comp("p2p", r.peer_id))
                       ELSE with_ws, "")
  ELSE DnsRet("Err", r.source_address, "InvalidData")

\* What the blocking task of a resolver can end with (dns.rs:114-118): the
\* lookup's addresses, the lookup's io error, or the task's own failure.
Lookups(r) ==
  { [t |-> "Ok", iter |-> it] : it \in to_socket_addrs(r.port) }
    \cup { [t |-> "IoErr", iter |-> << >>], [t |-> "JoinErr", iter |-> << >>] }

NoLookup == [t |-> "none", iter |-> << >>]

\* Protocol::write_to_bytes: the component's code followed by its argument
write_to_bytes(proto) == << proto.k, proto.v >>

HostKinds == {"ip4", "ip6", "dns4", "dns6", "tls"}

\* A faulty loop: the scan stops at the tcp component.
RECURSIVE from_loop_until_tcp(_, _, _, _)
from_loop_until_tcp(addr, i, host, port) ==
  IF i > Len(addr) THEN [host |-> host, port |-> port]
  ELSE IF addr[i].k \in HostKinds
       THEN from_loop_until_tcp(addr, i + 1, write_to_bytes(addr[i]), port)
  ELSE IF addr[i].k = "tcp" THEN [host |-> host, port |-> addr[i].v]
  ELSE from_loop_until_tcp(addr, i + 1, host, port)

\* The loop of ConnectableAddr::from (addr.rs:124-134) from component i on,
\* with the host and port found so far.
RECURSIVE from_loop(_, _, _, _)
from_loop(addr, i, host, port) ==
  IF i > Len(addr) THEN [host |-> host, port |-> port]
  ELSE IF addr[i].k \in HostKinds
       THEN from_loop(addr, i + 1, write_to_bytes(addr[i]), port)
  ELSE IF addr[i].k = "tcp" THEN from_loop(addr, i + 1, host, addr[i].v)
  ELSE from_loop(addr, i + 1, host, port)

NoHost == << >>

\* impl From<&Multiaddr> for ConnectableAddr (addr.rs:117-140); the expect
\* of line 136 panics when no component bears a host.
ConnectableAddr_from(addr) ==
  LET r == from_loop(addr, 1, NoHost, "0")
  IN IF r.host = NoHost
     THEN [t |-> "panic", host |-> NoHost, port |-> "0"]
     ELSE [t |-> "Ok", host |-> r.host, port |-> r.port]

\* No multiaddr has been looked at yet.
DnsIdle ==
  /\ maddr = << >>
  /\ resolver = NoResolver("unbuilt")
  /\ lookup = NoLookup
  /\ dns_ret = DnsRet("none", << >>, "")
  /\ caddr = [t |-> "none", host |-> NoHost, port |-> "0"]

\* The user either reads its channels (promptly or not) or never does.
Envs == { EnvKinds \ {"user_stalled"}, EnvKinds \ {"user_slow"} }

\* Inbound traffic: the remote peer sends frames, the service sends nothing.
RecvInit ==
  /\ Built
  /\ keep_buffer \in BOOLEAN
  /\ event \in BOOLEAN
  /\ handlers \in SUBSET {"service", "session"}
  /\ env \in Envs
  /\ n_msgs = 0
  /\ n_frames = IF Cardinality(handlers) = 2 THEN MaxFramesBoth ELSE MaxFrames
  /\ AddrNew(MaxKnown)
  /\ DnsIdle

\* Outbound traffic: the service sends Message commands, the peer sends nothing.
SendInit ==
  /\ Built
  /\ keep_buffer \in BOOLEAN
  /\ event \in BOOLEAN
  /\ handlers \in { {}, {"service"} }
  /\ env \in Envs
  /\ n_msgs = MaxMsgs
  /\ n_frames = 0
  /\ AddrNew(MaxKnown)
  /\ DnsIdle

\* Substream::proto_open, called by the Session right after build()
proto_open ==
  /\ phase = "new"
  /\ phase' = "open"
  /\ service_proto_sender' =
       IF "service" \in handlers THEN << Ev("Connected", 0) >> ELSE << >>
  /\ session_proto_sender' =
       IF "session" \in handlers THEN << Ev("Opened", 0) >> ELSE << >>
  /\ UNCHANGED << high_write_buf, write_buf, dead, keep_buffer, event,
                  event_sender, handlers, env, n_msgs, n_frames, closed, pending_data_size, buffer,
                  event_receiver, rx_closed, chan, tasks, sent, enq, n_read,
                  last_recv, n_close, hist, n_pushed >>
  /\ UNCHANGED addr_vars
  /\ UNCHANGED dns_vars
  /\ UNCHANGED test_vars

\* One poll of the Stream.  A Stream that returned Ready(None) is not polled again.
Poll ==
  /\ phase = "open"
  /\ \E r \in poll_next(St) :
       /\ Commit(r)
       /\ phase' = IF r.ret = "None" THEN "done" ELSE "open"
  /\ UNCHANGED << keep_buffer, event, handlers, env, n_msgs, n_frames,
                  buffer, n_pushed >>
  /\ UNCHANGED addr_vars
  /\ UNCHANGED dns_vars
  /\ UNCHANGED test_vars

\* SessionContext::incr_pending_data_size
incr_pending_data_size(n) == (pending_data_size + n) % UsizeMod

\* A faulty push: every event goes to the normal queue.
push_all_normal(priority, ev) == [buffer EXCEPT !.Normal = Append(@, ev)]

\* SessionController::push (context.rs:42-48)
push(priority, ev) ==
  IF priority = "High"
  THEN [buffer EXCEPT !.High = Append(@, ev)]
  ELSE [buffer EXCEPT !.Normal = Append(@, ev)]

\* SessionController::push_message: the service sends frame n_pushed + 1
push_message(priority) ==
  /\ phase = "open"
  /\ n_pushed < n_msgs
  /\ n_pushed' = n_pushed + 1
  /\ pending_data_size' = incr_pending_data_size(FrameLen(n_pushed + 1))
  /\ buffer' = push(priority, Ev("Message", n_pushed + 1))
  /\ UNCHANGED << high_write_buf, write_buf, dead, keep_buffer, event,
                  event_sender, service_proto_sender, session_proto_sender,
                  handlers, env, n_msgs, n_frames, closed, event_receiver, rx_closed, chan, tasks,
                  sent, enq, n_read, phase, last_recv, n_close, hist >>
  /\ UNCHANGED addr_vars
  /\ UNCHANGED dns_vars
  /\ UNCHANGED test_vars

\* SessionController::try_send hands the oldest high event, else the oldest
\* normal one, to the Session, which routes it to the substream's command
\* receiver at the same priority (or drops it when that receiver is closed).
try_send ==
  /\ phase = "open"
  /\ buffer.High # << >> \/ buffer.Normal # << >>
  /\ LET lane == IF buffer.High # << >> THEN "High" ELSE "Normal"
     IN /\ buffer' = [buffer EXCEPT ![lane] = Tail(@)]
        /\ event_receiver' =
             IF rx_closed THEN event_receiver
             ELSE [event_receiver EXCEPT ![lane] = Append(@, Head(buffer[lane]))]
  /\ UNCHANGED << high_write_buf, write_buf, dead, keep_buffer, event,
                  event_sender, service_proto_sender, session_proto_sender,
                  handlers, env, n_msgs, n_frames, closed, pending_data_size, rx_closed, chan, tasks,
                  sent, enq, n_read, phase, last_recv, n_close, hist, n_pushed >>
  /\ UNCHANGED addr_vars
  /\ UNCHANGED dns_vars
  /\ UNCHANGED test_vars

\* The Session sends a high-priority Close command to the substream.
SessionSendClose ==
  /\ "close_cmd" \in env
  /\ phase = "open" /\ ~rx_closed
  /\ \A i \in 1..Len(event_receiver.High) : event_receiver.High[i].t # "Close"
  /\ event_receiver' = [event_receiver EXCEPT !.High = Append(@, Ev("Close", 0))]
  /\ UNCHANGED << high_write_buf, write_buf, dead, keep_buffer, event,
                  event_sender, service_proto_sender, session_proto_sender,
                  handlers, env, n_msgs, n_frames, closed, pending_data_size, buffer, rx_closed, chan,
                  tasks, sent, enq, n_read, phase, last_recv, n_close, hist,
                  n_pushed >>
  /\ UNCHANGED addr_vars
  /\ UNCHANGED dns_vars
  /\ UNCHANGED test_vars

RemoveAt(q, i) == SubSeq(q, 1, i - 1) \o SubSeq(q, i + 1, Len(q))

ChanRank(ch) == CASE ch = "svc" -> 1 [] ch = "ses" -> 2 [] ch = "up" -> 3

\* One step of a detached task (sender.send_all(events)): it sends its next
\* event when the channel has room, and ends after its last event or when it
\* finds the receiver gone.  Tasks of different channels do not affect each
\* other, so the model runs them channel by channel; tasks of one channel
\* interleave freely.
TaskStep(i) ==
  /\ i \in 1..Len(tasks)
  /\ \A j \in 1..Len(tasks) : ChanRank(tasks[i].ch) <= ChanRank(tasks[j].ch)
  /\ LET t == tasks[i] IN
     \/ /\ ~chan[t.ch].alive
        /\ tasks' = RemoveAt(tasks, i)
        /\ chan' = chan
     \/ /\ chan[t.ch].alive /\ ChanCanDrop(t.ch)
        /\ tasks' = RemoveAt(tasks, i)
        /\ chan' = [chan EXCEPT ![t.ch].alive = FALSE]
     \/ /\ chan[t.ch].alive
        /\ TRUE \in ChanRoom([chan |-> chan], t.ch)
        /\ chan' = [chan EXCEPT ![t.ch].log = Append(@, Head(t.ev))]
        /\ tasks' = IF Len(t.ev) = 1 THEN RemoveAt(tasks, i)
                    ELSE [tasks EXCEPT ![i].ev = Tail(@)]
  /\ UNCHANGED << high_write_buf, write_buf, dead, keep_buffer, event,
                  event_sender, service_proto_sender, session_proto_sender,
                  handlers, env, n_msgs, n_frames, closed, pending_data_size,
                  buffer, event_receiver, rx_closed, sent, enq, n_read, phase,
                  last_recv, n_close, hist, n_pushed >>
  /\ UNCHANGED addr_vars
  /\ UNCHANGED dns_vars
  /\ UNCHANGED test_vars

RecvNext ==
  \/ proto_open
  \/ Poll
  \/ SessionSendClose
  \/ \E i \in 1..Len(tasks) : TaskStep(i)

SendNext ==
  \/ proto_open
  \/ Poll
  \/ \E p \in Lanes : push_message(p)
  \/ try_send
  \/ SessionSendClose
  \/ \E i \in 1..Len(tasks) : TaskStep(i)

\* The burst of test_block_send.rs:46 (1024 frames against a count of 512).
BurstLen == 2 * CountTo

\* A faulty received: it counts every frame.
received_unguarded(c) == c + 1

\* PHandle::received, the counter (test_block_send.rs:58-60)
received(c) == IF c < CountTo THEN c + 1 ELSE c

\* The user's handler takes the next event of its channel.  On Received it
\* counts, and at CountTo it calls shutdown (test_block_send.rs:57-66); on
\* Disconnected it calls shutdown (test_block_send.rs:53-55).  The service
\* then closes the session: the closed flag is set.
HandlerStep ==
  /\ "phandle" \in env
  /\ n_handled < Len(chan["svc"].log)
  /\ LET ev == chan["svc"].log[n_handled + 1]
         c == IF ev.t = "Received" THEN received(count) ELSE count
     IN /\ n_handled' = n_handled + 1
        /\ count' = c
        /\ closed' = (closed \/ ev.t = "Disconnected"
                             \/ (ev.t = "Received" /\ c = CountTo))
  /\ UNCHANGED << high_write_buf, write_buf, dead, keep_buffer, event,
                  event_sender, service_proto_sender, session_proto_sender,
                  handlers, env, n_msgs, n_frames, pending_data_size, buffer,
                  event_receiver, rx_closed, chan, tasks, sent, enq, n_read,
                  phase, last_recv, n_close, hist, n_pushed >>
  /\ UNCHANGED addr_vars
  /\ UNCHANGED dns_vars

\* The receiving side of test_block_send: a service-level PHandle, a burst of
\* BurstLen frames from the remote peer, and nothing that fails.
BurstInit ==
  /\ Built
  /\ keep_buffer \in BOOLEAN
  /\ event \in BOOLEAN
  /\ handlers = {"service"}
  /\ env = {"phandle"}
  /\ n_msgs = 0
  /\ n_frames = BurstLen
  /\ AddrNew(MaxKnown)
  /\ DnsIdle

BurstNext ==
  \/ proto_open
  \/ Poll
  \/ HandlerStep
  \/ \E i \in 1..Len(tasks) : TaskStep(i)

\* A poll that gets something done: the substream's task is woken when the
\* framed stream has a frame or a channel has room, so such a poll is not
\* put off forever; nor is the handler or a spawned task.
PollProgress ==
  Poll /\ (n_read' # n_read \/ chan' # chan \/ phase' # phase)

BurstFair ==
  /\ WF_vars(proto_open)
  /\ WF_vars(PollProgress)
  /\ WF_vars(HandlerStep)
  /\ WF_vars(\E i \in 1..Len(tasks) : TaskStep(i))

BurstSpec == BurstInit /\ [][BurstNext]_vars /\ BurstFair

\* Outbound traffic towards a sink that is slow or stuck, under a runtime
\* that keeps polling the substream and keeps the Session's side going.
StarveInit ==
  /\ Built
  /\ keep_buffer \in BOOLEAN
  /\ event = FALSE
  /\ handlers = {}
  /\ env \in { {"sink_stuck", "close_cmd"}, {"sink_pending", "close_cmd"} }
  /\ n_msgs = MaxMsgs
  /\ n_frames = 0
  /\ AddrNew(MaxKnown)
  /\ DnsIdle

StarveFair ==
  /\ WF_vars(proto_open)
  /\ WF_vars(Poll)
  /\ WF_vars(try_send)
  /\ WF_vars(\E i \in 1..Len(tasks) : TaskStep(i))

StarveSpec == StarveInit /\ [][SendNext]_vars /\ StarveFair

\* Outbound traffic that can overrun write_buf: one Message command more
\* than the downward gate lets in, a sink that can be not ready, and a Session
\* that can send Close.
GateInit ==
  /\ Built
  /\ keep_buffer \in BOOLEAN
  /\ event = FALSE
  /\ handlers = {}
  /\ env = {"sink_pending", "close_cmd"}
  /\ n_msgs = SendEventSize + 2
  /\ n_frames = 0
  /\ AddrNew(MaxKnown)
  /\ DnsIdle

GateSpec == GateInit /\ [][SendNext]_vars

\* The substream under inbound traffic, and under outbound traffic.
RecvSpec == RecvInit /\ [][RecvNext]_vars

SendSpec == SendInit /\ [][SendNext]_vars

\* An AddrKnown of any small capacity under inserts and removes; the
\* substream stays as built.
AddrInit ==
  /\ Built
  /\ keep_buffer = FALSE
  /\ event = FALSE
  /\ handlers = {}
  /\ env = {}
  /\ n_msgs = 0
  /\ n_frames = 0
  /\ \E n \in 0..MaxKnown : AddrNew(n)
  /\ DnsIdle

sub_vars ==
  << high_write_buf, write_buf, dead, keep_buffer, event, event_sender,
     service_proto_sender, session_proto_sender, handlers, env, n_msgs,
     n_frames, closed, pending_data_size, buffer, event_receiver, rx_closed,
     chan, tasks, sent, enq, n_read, phase, last_recv, n_close, hist,
     n_pushed, count, n_handled >>

AddrInsert ==
  \E key \in AddrKeys : insert(key) /\ UNCHANGED sub_vars /\ UNCHANGED dns_vars

AddrRemove ==
  \E key \in AddrKeys : remove(key) /\ UNCHANGED sub_vars /\ UNCHANGED dns_vars

AddrNext == AddrInsert \/ AddrRemove

AddrSpec == AddrInit /\ [][AddrNext]_vars

\* DNSResolver::new applied to the multiaddr
DnsNew ==
  /\ resolver.t = "unbuilt"
  /\ resolver' = DNSResolver_new(maddr)
  /\ UNCHANGED << maddr, lookup, dns_ret, caddr >>
  /\ UNCHANGED sub_vars
  /\ UNCHANGED addr_vars

\* <DNSResolver as Future>::poll (dns.rs:97-120), polled until it is Ready:
\* the blocking task is spawned if there is none, and its handle is polled.
DnsPoll ==
  /\ resolver.t = "Some"
  /\ dns_ret.t = "none"
  /\ \/ /\ resolver' = [resolver EXCEPT !.join_handle = "Some"]
        /\ UNCHANGED << lookup, dns_ret >>
     \/ \E res \in Lookups(resolver) :
          /\ lookup' = res
          /\ resolver' = [resolver EXCEPT !.join_handle = "None",
                            !.peer_id = IF res.t = "Ok" /\ res.iter # << >>
                                        THEN "None" ELSE @]
          /\ dns_ret' =
               CASE res.t = "Ok" -> new_addr(resolver, res.iter)
                 [] res.t = "JoinErr" ->
                      DnsRet("Err", resolver.source_address, "JoinError")
                 [] res.t = "IoErr" ->
                      DnsRet("Err", resolver.source_address, "IoError")
  /\ UNCHANGED << maddr, caddr >>
  /\ UNCHANGED sub_vars
  /\ UNCHANGED addr_vars

\* ConnectableAddr::from applied to the multiaddr
Convert ==
  /\ caddr.t = "none"
  /\ caddr' = ConnectableAddr_from(maddr)
  /\ UNCHANGED << maddr, resolver, lookup, dns_ret >>
  /\ UNCHANGED sub_vars
  /\ UNCHANGED addr_vars

\* Any multiaddr of up to MaxComps components; the substream and the
\* AddrKnown stay as built.
MaddrInit ==
  /\ Built
  /\ keep_buffer = FALSE
  /\ event = FALSE
  /\ handlers = {}
  /\ env = {}
  /\ n_msgs = 0
  /\ n_frames = 0
  /\ AddrNew(MaxKnown)
  /\ maddr \in Multiaddrs
  /\ resolver = NoResolver("unbuilt")
  /\ lookup = NoLookup
  /\ dns_ret = DnsRet("none", << >>, "")
  /\ caddr = [t |-> "none", host |-> NoHost, port |-> "0"]

MaddrNext == DnsNew \/ DnsPoll \/ Convert

MaddrSpec == MaddrInit /\ [][MaddrNext]_vars

\* ------------------------------------------------------------ properties
\* C1: no normal-priority frame is handed to the framed sink (start_send)
\* while high_write_buf holds a frame, so of a high and a normal frame that
\* are both pending the high one reaches the sink first.
C1_PriorityMonotonic ==
  \A i \in 1..Len(sent) : sent[i].lane = "Normal" => ~sent[i].hp

\* A normal frame met back-pressure and waited in write_buf, a high frame
\* was enqueued after it, and the high frame went to the sink first.
C1_Witness ==
  /\ Len(enq) = 2 /\ enq[1].lane = "Normal" /\ enq[2].lane = "High"
  /\ Len(sent) = 2 /\ sent[1].lane = "High" /\ sent[2].lane = "Normal"

WriteBufOf(lane) == IF lane = "High" THEN high_write_buf ELSE write_buf

\* C2: in each priority lane the frames handed to the sink are a prefix of
\* the frames enqueued into that lane, and while the substream is live every
\* enqueued frame is either handed to the sink or still in its queue, in
\* enqueue order (nothing lost, duplicated or overtaken).
C2_LaneFifo ==
  \A lane \in Lanes :
    /\ IsPrefix(SelectLane(sent, lane), SelectLane(enq, lane))
    /\ ~dead => SelectLane(enq, lane) = SelectLane(sent, lane) \o WriteBufOf(lane)

\* The first normal frame met back-pressure and was put back; the second
\* one queued up behind it.
C2_Witness == write_buf = << 1, 2 >> /\ sent = << >>

\* C3: a handler that was given Connected (service level) or Opened (session
\* level) is never sent two Disconnected (service level) or two Closed
\* (session level) over the life of the substream.
C3_PairedOnce ==
  /\ Count(chan["svc"].log, "Disconnected") <= 1
  /\ Count(chan["ses"].log, "Closed") <= 1

HandlerChans == {"svc", "ses"}

\* C4: on the channel to each user handler the first event is Connected or
\* Opened, and nothing arrives after Disconnected.
C4_HandlerOrder ==
  \A ch \in HandlerChans :
    LET log == chan[ch].log IN
    /\ log # << >> => log[1].t \in {"Connected", "Opened"}
    /\ \A i \in 1..Len(log) : log[i].t = "Disconnected" => i = Len(log)

\* The Received events of handler channel ch: those the handler got, those
\* in the substream's buffer and those a detached task still holds.
RECURSIVE TaskEvents(_, _)
TaskEvents(ts, ch) ==
  IF ts = << >> THEN << >>
  ELSE (IF Head(ts).ch = ch THEN Head(ts).ev ELSE << >>)
       \o TaskEvents(Tail(ts), ch)

BufferOf(ch) ==
  IF ch = "svc" THEN service_proto_sender ELSE session_proto_sender

Configured(ch) == (IF ch = "svc" THEN "service" ELSE "session") \in handlers

\* The frames that passed before_receive so far: all that were read, but
\* for the one before_receive rejected.
Accepted ==
  [i \in 1..(IF "before_receive_err" \in hist THEN n_read - 1 ELSE n_read) |-> i]

\* C5: the Received events pushed to each configured handler carry the
\* payloads of the frames the framed stream yielded, one for one and in
\* order; what the handler has got so far is a prefix of them.
C5_ReceivedOrder ==
  \A ch \in HandlerChans :
    /\ IsPrefix(SelectData(chan[ch].log, "Received"), Accepted)
    /\ (Configured(ch) /\ chan[ch].alive) =>
         SelectData(chan[ch].log \o BufferOf(ch) \o TaskEvents(tasks, ch),
                    "Received") = Accepted

\* A handler got two frames, the second of which had to wait in the buffer.
C5_Witness ==
  \E ch \in HandlerChans :
    /\ SelectData(chan[ch].log, "Received") = << 1 >>
    /\ SelectData(BufferOf(ch), "Received") = << 2, 3 >>

\* C6: with keep_buffer = false, pending_data_size reads 0 at the moment the
\* session's closed flag becomes true.
C6_CounterBalance ==
  [][(~keep_buffer /\ ~closed /\ closed') => pending_data_size' = 0]_vars

\* The calls so far are inserts only, at strictly increasing Instants.
InsertsOnly == \A i \in 1..Len(calls) : calls[i].op = "insert"

StrictTimes == \A i, j \in 1..Len(calls) : i < j => calls[i].at < calls[j].at

\* C7: after any sequence of inserts (here even with strictly increasing
\* Instants) the set holds at most max_known addresses and the three
\* indexes have equal size and describe the same addresses.
C7_IndexesAgree ==
  (InsertsOnly /\ StrictTimes) =>
    /\ Cardinality(addrs) <= max_known
    /\ DOMAIN addr_times = addrs
    /\ { time_addrs[x] : x \in DOMAIN time_addrs } = addrs
    /\ Cardinality(DOMAIN time_addrs) = Cardinality(addrs)

DistinctKeys == \A i, j \in 1..Len(calls) : i < j => calls[i].key # calls[j].key

Min(a, b) == IF a < b THEN a ELSE b

\* C8: after inserts of distinct addresses at strictly increasing Instants
\* the set holds exactly the last max_known of them: each overflow evicted
\* the entry with the smallest insertion time, and after max_known + 1
\* inserts exactly the first one is absent.
C8_EvictsOldest ==
  (InsertsOnly /\ StrictTimes /\ DistinctKeys) =>
    \A i \in 1..Len(calls) :
      contains(calls[i].key) <=> i > Len(calls) - Min(Len(calls), max_known)

\* max_known + 1 distinct addresses went into a set of capacity max_known >= 2.
C8_Witness ==
  /\ InsertsOnly /\ StrictTimes /\ DistinctKeys
  /\ max_known >= 2 /\ Len(calls) = max_known + 1
  /\ ~contains(calls[1].key)

\* C9: when the user's handlers never read their events, the substream
\* reads at most recv_event_size + 1 frames from the network.
C9_StalledHandlerStopsReading ==
  ("user_stalled" \in env /\ handlers # {}) => n_read <= RecvEventSize + 1

\* C10 as stated: whenever recv_frame finds more than recv_event_size events
\* in event_sender it returns Pending.
C10_GateReturnsPending ==
  last_recv.over => last_recv.ret = "Pending"

\* C10: whenever recv_frame finds more than recv_event_size events in
\* event_sender it returns without polling the framed stream, so that no
\* frame is consumed: Pending when the substream is live, Ready(None) when
\* it is already dead.
C10_GateStopsReading ==
  last_recv.over =>
    /\ ~last_recv.polled
    /\ last_recv.ret = IF last_recv.dead THEN "None" ELSE "Pending"

\* recv_frame met the gate while the remote peer had a frame to deliver.
C10_Witness ==
  /\ last_recv.over /\ ~last_recv.dead /\ last_recv.ret = "Pending"
  /\ n_read < n_frames

\* C11: the substream never takes a command from its command receiver while
\* write_buf holds more than send_event_size frames, and write_buf never
\* holds more than send_event_size + 1 frames.
C11_SendGate ==
  /\ "cmd_over_gate" \notin hist
  /\ Len(write_buf) <= SendEventSize + 1

\* recv_event met the gate: write_buf is at its limit and a command waits.
C11_Witness ==
  /\ "send_gate" \in hist
  /\ Len(write_buf) = SendEventSize + 1
  /\ event_receiver.Normal # << >>

C13_HighNotStarved ==
  (event_receiver.High # << >>) ~> (event_receiver.High = << >> \/ phase = "done")

OtherLane(lane) == IF lane = "High" THEN "Normal" ELSE "High"

\* C14: an event pushed with High priority goes to the high queue of the
\* SessionController's buffer and any other to the normal queue, and try_send
\* takes no event from the normal queue while the high queue holds one.
C14_PriorityBuffer ==
  [][ /\ \A lane \in Lanes :
           push_message(lane) =>
             /\ buffer'[lane] = Append(buffer[lane], Ev("Message", n_pushed + 1))
             /\ buffer'[OtherLane(lane)] = buffer[OtherLane(lane)]
      /\ Len(buffer'.Normal) < Len(buffer.Normal) => buffer.High = << >>
    ]_vars

\* A high event pushed after a normal one was handed on first.
C14_Witness ==
  /\ buffer.Normal = << Ev("Message", 1) >>
  /\ event_receiver.High = << Ev("Message", 2) >>

\* /dns4|dns6/<host>/tcp/<port>[/ws][/p2p/<id>]
DnsForm(addr) ==
  /\ Len(addr) >= 2
  /\ addr[1].k \in {"dns4", "dns6"}
  /\ addr[2].k = "tcp"
  /\ \E rest \in { << >>, << "ws" >>, << "p2p" >>, << "ws", "p2p" >> } :
       /\ Len(addr) = 2 + Len(rest)
       /\ \A i \in 1..Len(rest) : addr[2 + i].k = rest[i]

HasKind(addr, k) == \E i \in 1..Len(addr) : addr[i].k = k

KindArg(addr, k) == addr[CHOOSE i \in 1..Len(addr) : addr[i].k = k].v

\* C15: a successful resolution of /dns4|dns6/<host>/tcp/<port>[/ws][/p2p/<id>]
\* yields the first resolved IP (ip4 or ip6), then tcp with the source's port,
\* then ws exactly if the source has ws, then p2p/<id> with the source's peer
\* id exactly if the source has one.
C15_DnsPreservation ==
  (DnsForm(maddr) /\ dns_ret.t = "Ok") =>
    /\ lookup.iter # << >>
    /\ Head(lookup.iter).ip.k \in {"ip4", "ip6"}
    /\ dns_ret.addr =
         << Head(lookup.iter).ip, Comp("tcp", maddr[2].v) >>
           \o (IF HasKind(maddr, "ws") THEN << Comp("ws", "") >> ELSE << >>)
           \o (IF HasKind(maddr, "p2p")
               THEN << Comp("p2p", KindArg(maddr, "p2p")) >> ELSE << >>)

\* /dns4/a/tcp/80/ws/p2p/id was resolved, and both suffixes came back.
C15_Witness ==
  /\ maddr = << Comp("dns4", "a"), Comp("tcp", "80"), Comp("ws", ""),
                Comp("p2p", "id") >>
  /\ dns_ret.t = "Ok"
  /\ Len(dns_ret.addr) = 4

\* Component i is dns4 or dns6 and component i + 1 is tcp.
DnsTcpAt(addr, i) ==
  /\ i + 1 <= Len(addr)
  /\ addr[i].k \in {"dns4", "dns6"}
  /\ addr[i + 1].k = "tcp"

\* C16: DNSResolver::new returns Some exactly when the multiaddr has a dns4
\* or dns6 component immediately followed by a tcp component, with the domain
\* and port of such a pair, and None for every other multiaddr.
C16_SomeIffDnsTcp ==
  resolver.t # "unbuilt" =>
    /\ resolver.t = "Some" <=> \E i \in 1..Len(maddr) : DnsTcpAt(maddr, i)
    /\ resolver.t = "Some" =>
         \E i \in 1..Len(maddr) :
           /\ DnsTcpAt(maddr, i)
           /\ resolver.domain = maddr[i].v
           /\ resolver.port = maddr[i + 1].v

\* C17: the resolver future completes once; of several addresses the first
\* is used; a failed lookup, a failed blocking task and an empty lookup each
\* give an error that carries the unmodified source multiaddr, with
\* InvalidData for the empty lookup.
C17_ResolverOutcome ==
  /\ [](dns_ret.t # "none" =>
          /\ lookup.t = "Ok" /\ lookup.iter # << >> =>
               /\ dns_ret.t = "Ok"
               /\ SubSeq(dns_ret.addr, 1, 2)
                    = socketaddr_to_multiaddr(Head(lookup.iter))
          /\ lookup.t = "Ok" /\ lookup.iter = << >> =>
               dns_ret = DnsRet("Err", maddr, "InvalidData")
          /\ lookup.t = "IoErr" => dns_ret = DnsRet("Err", maddr, "IoError")
          /\ lookup.t = "JoinErr" => dns_ret = DnsRet("Err", maddr, "JoinError"))
  /\ [][dns_ret.t # "none" => dns_ret' = dns_ret]_vars

\* The lookup returned two different addresses and the future completed.
C17_Witness ==
  /\ Len(lookup.iter) = 2
  /\ lookup.iter[1] # lookup.iter[2]
  /\ dns_ret.t = "Ok"

\* The first host-bearing component of a multiaddr that has one.
FirstHost(addr) ==
  addr[CHOOSE i \in 1..Len(addr) :
         /\ addr[i].k \in HostKinds
         /\ \A j \in 1..(i - 1) : addr[j].k \notin HostKinds]

\* C18: the conversion takes the host from the first host-bearing component
\* (IP4, IP6, DNS4, DNS6 or TLS) and the port from a TCP component, and
\* ignores all other components, whatever number of host-bearing components
\* the multiaddr has.
C18_FirstHost ==
  caddr.t = "Ok" =>
    /\ caddr.host = write_to_bytes(FirstHost(maddr))
    /\ IF HasKind(maddr, "tcp")
       THEN \E i \in 1..Len(maddr) :
              maddr[i].k = "tcp" /\ caddr.port = maddr[i].v
       ELSE caddr.port = "0"

\* The multiaddr with its components in the order f.
Reorder(addr, f) == [i \in 1..Len(addr) |-> addr[f[i]]]

\* Every order of the components converts to the same ConnectableAddr.
OrderIndependent ==
  \A f \in Permutations(1..Len(maddr)) :
    ConnectableAddr_from(Reorder(maddr, f)) = caddr

\* C19 as stated: two multiaddrs built from the same components in different
\* orders convert to equal ConnectableAddr values.
C19_OrderIndependent == caddr.t # "none" => OrderIndependent

CountKinds(addr, ks) == Cardinality({ i \in 1..Len(addr) : addr[i].k \in ks })

\* C19: two multiaddrs built from the same components in different orders,
\* with at most one host-bearing component and at most one TCP component,
\* convert to equal ConnectableAddr values.
C19_OrderIndependentSingle ==
  ( /\ caddr.t # "none"
    /\ CountKinds(maddr, HostKinds) <= 1
    /\ CountKinds(maddr, {"tcp"}) <= 1 ) => OrderIndependent

\* /p2p/id/tcp/80/ip4/1.2.3.4 was converted: the host and the port come last.
C19_Witness ==
  /\ maddr = << Comp("p2p", "id"), Comp("tcp", "80"), Comp("ip4", "1.2.3.4") >>
  /\ caddr.t = "Ok"
  /\ caddr.port = "80"

\* C20: once the substream has processed a Close command, the normal write
\* buffer is empty and the substream is dead, and when its writer has been
\* shut down no frame is left in the high-priority write buffer: those
\* pending at the Close were handed to the sink first.
C20_CloseFlushesHigh ==
  "close_cmd" \in hist =>
    /\ write_buf = << >>
    /\ dead
    /\ n_close > 0 => high_write_buf = << >>

\* The events of the substream on their way to the Session: those the
\* Session's channel took, those in event_sender and those a detached task
\* still holds.
UpEvents == chan["up"].log \o event_sender \o TaskEvents(tasks, "up")

\* C21: when the sink fails while a Message command is handled, the substream
\* becomes dead and the Error event is not lost: while the Session lives and
\* is not closed, the event has reached it or is still on its way, whatever
\* keep_buffer is and whether or not the upward channel was ready.
C21_SendErrorSurfaced ==
  "msg_send_err" \in hist =>
    /\ dead
    /\ (chan["up"].alive /\ ~closed) => Count(UpEvents, "Error") >= 1

\* C22: when the flush at the start of a poll fails, the substream is dead
\* and the poll returns finished without reading a frame or a command, and
\* (the session not being closed) an Error event followed by a Close event
\* goes up to the Session as the last two events of the substream.
C22_FlushError ==
  /\ []("flush_err" \in hist =>
          /\ dead
          /\ phase = "done"
          /\ (~closed /\ chan["up"].alive) =>
               LET n == Len(UpEvents) IN
               /\ n >= 2
               /\ UpEvents[n - 1].t = "Error"
               /\ UpEvents[n].t = "Close")
  /\ [][("flush_err" \notin hist /\ "flush_err" \in hist') =>
          /\ n_read' = n_read
          /\ event_receiver' = event_receiver]_vars

\* A flush failed while a frame and a Close command were waiting, and the
\* Session has got Error and then Close.
C22_Witness ==
  /\ "flush_err" \in hist
  /\ n_read < n_frames
  /\ event_receiver.High # << >>
  /\ ~closed
  /\ Len(chan["up"].log) >= 2
  /\ chan["up"].log[Len(chan["up"].log) - 1].t = "Error"
  /\ chan["up"].log[Len(chan["up"].log)].t = "Close"

\* C23: a read that ends the framed stream quietly (BrokenPipe,
\* ConnectionAborted, ConnectionReset, NotConnected, UnexpectedEof) makes the
\* substream dead and no Error event goes up; a read error of another kind
\* makes it dead and exactly one Error event goes up (to a Session that lives
\* and is not closed; never more than one); either way the substream
\* finishes in that poll.
C23_CodecErrorPolicy ==
  /\ "quiet_err" \in hist =>
       /\ dead
       /\ phase = "done"
       /\ Count(UpEvents, "Error") = 0
  /\ "codec_err" \in hist =>
       /\ dead
       /\ phase = "done"
       /\ Count(UpEvents, "Error") <= 1
       /\ (~closed /\ chan["up"].alive) => Count(UpEvents, "Error") = 1

\* A read failed with a loud error kind and the Session has got the Error
\* event.
C23_Witness ==
  /\ "codec_err" \in hist
  /\ ~closed
  /\ Count(chan["up"].log, "Error") = 1

\* C24: with keep_buffer = false, a substream that has torn down while the
\* session is not closed has nothing left in event_sender, and what its
\* detached tasks carry to the Session is only the teardown's own Error and
\* Close: the events that were pending before are discarded.
C24_PendingDiscarded ==
  (~keep_buffer /\ phase = "done" /\ ~closed) =>
    /\ event_sender = << >>
    /\ \A i \in 1..Len(TaskEvents(tasks, "up")) :
         TaskEvents(tasks, "up")[i].t \in {"Error", "Close"}

\* A Message event that was pending at the teardown is neither with the
\* Session nor on its way, and Close is.
C24_Witness ==
  /\ ~keep_buffer /\ event /\ phase = "done" /\ ~closed
  /\ chan["up"].alive
  /\ "before_receive_err" \notin hist
  /\ Count(UpEvents, "Message") < n_read
  /\ Count(UpEvents, "Close") >= 1

\* C25: with keep_buffer = true, once the substream has torn down, whatever
\* the trigger (the session's closed flag included), no event is left behind
\* in event_sender: what was pending went to the Session or is held by a
\* detached task; and on the way to the Session no event comes after a Close.
C25_KeptForwarded ==
  (keep_buffer /\ phase = "done" /\ chan["up"].alive) =>
    /\ event_sender = << >>
    /\ \A i, j \in 1..Len(UpEvents) :
         (i < j /\ UpEvents[i].t = "Close") => UpEvents[j].t = "Close"

\* The tasks spawned by the step.
NewTasks == SubSeq(tasks', Len(tasks) + 1, Len(tasks'))

\* The last events of the new task of channel ch end with the events tl.
SpawnedWith(ch, tl) ==
  \E i \in 1..Len(NewTasks) :
    /\ NewTasks[i].ch = ch
    /\ Len(NewTasks[i].ev) >= Len(tl)
    /\ SubSeq(NewTasks[i].ev, Len(NewTasks[i].ev) - Len(tl) + 1,
              Len(NewTasks[i].ev)) = tl

Spawned(ch) == \E i \in 1..Len(NewTasks) : NewTasks[i].ch = ch

\* C26: a poll that runs the teardown once closes the command receiver;
\* sends Disconnected to the service-level handler; sends Closed to the
\* session-level handler, followed by Disconnected exactly if the closed flag
\* was found set; and sends Close to the Session exactly if the closed flag
\* was found not set.
C26_TeardownEvents ==
  [][ n_close' = n_close + 1 =>
        /\ rx_closed'
        /\ IF "service" \in handlers
           THEN SpawnedWith("svc", << Ev("Disconnected", 0) >>)
           ELSE ~Spawned("svc")
        /\ IF "session" \in handlers
           THEN \/ /\ SpawnedWith("ses", << Ev("Closed", 0) >>)
                   /\ ~closed
                \/ /\ SpawnedWith("ses", << Ev("Closed", 0), Ev("Disconnected", 0) >>)
                   /\ closed'
           ELSE ~Spawned("ses")
        /\ IF closed'
           THEN ~Spawned("up")
           ELSE SpawnedWith("up", << Ev("Close", 0) >>)
    ]_vars

\* Both handlers are configured, the teardown found the session closed:
\* the session-level handler got Closed and then Disconnected, and no Close
\* went up.
C26_Witness ==
  /\ handlers = {"service", "session"}
  /\ n_close = 1 /\ closed /\ rx_closed
  /\ Count(chan["svc"].log, "Disconnected") = 1
  /\ Len(chan["ses"].log) >= 2
  /\ chan["ses"].log[Len(chan["ses"].log) - 1].t = "Closed"
  /\ chan["ses"].log[Len(chan["ses"].log)].t = "Disconnected"
  /\ Count(UpEvents, "Close") = 0

\* The entries of time_addrs that map to address a.
TimesOf(m, a) == { x \in DOMAIN m : m[x] = a }

\* C27: after remove of an address it is in none of the three indexes (no
\* entry of time_addrs maps to it either), and every other address keeps its
\* entries, whatever inserts came before.
C27_RemoveClears ==
  [][ \A key \in AddrKeys :
        remove(key) =>
          /\ key \notin addrs'
          /\ key \notin DOMAIN addr_times'
          /\ TimesOf(time_addrs', key) = {}
          /\ addrs' = addrs \ {key}
          /\ \A a \in AddrKeys \ {key} :
               /\ a \in DOMAIN addr_times =>
                    a \in DOMAIN addr_times' /\ addr_times'[a] = addr_times[a]
               /\ TimesOf(time_addrs', a) = TimesOf(time_addrs, a)
    ]_vars

\* C28: two inserts of different addresses never record the same Instant,
\* and every address of the set has a time_addrs entry of its own (so that
\* it can be evicted), even when the clock returns the same value twice.
C28_StrictInsertTimes ==
  /\ \A i, j \in 1..Len(calls) :
       ( /\ i < j
         /\ calls[i].op = "insert" /\ calls[j].op = "insert"
         /\ calls[i].key # calls[j].key ) => calls[i].at # calls[j].at
  /\ \A a \in addrs : TimesOf(time_addrs, a) # {}

\* C30: in an AddrKnown with max_known >= 1, contains(a) is true right
\* after insert(a), whatever inserts and removes came before (here even
\* with strictly increasing Instants).
C30_ContainsAfterInsert ==
  ( /\ max_known >= 1
    /\ StrictTimes
    /\ calls # << >>
    /\ calls[Len(calls)].op = "insert" ) => contains(calls[Len(calls)].key)

\* C29: a substream runs close_proto_stream at most once and sends at most
\* one Close event up to its Session, on every path.
C29_TeardownOnce ==
  /\ n_close <= 1
  /\ Count(UpEvents, "Close") <= 1

\* The bytes of the first n frames the service pushed.
RECURSIVE PushedBytes(_)
PushedBytes(n) == IF n = 0 THEN 0 ELSE FrameLen(n) + PushedBytes(n - 1)

\* The bytes of the frames the sink accepted.
RECURSIVE SentBytes(_)
SentBytes(log) ==
  IF log = << >> THEN 0 ELSE FrameLen(Head(log).f) + SentBytes(Tail(log))

\* C31: pending_data_size is decremented once for each frame the sink
\* accepts, by the frame's length, and for no other: the decrements never
\* exceed the increments, and the counter reads their difference without
\* having wrapped.
C31_NoUnderflow ==
  /\ \A i, j \in 1..Len(sent) : i # j => sent[i].f # sent[j].f
  /\ SentBytes(sent) <= PushedBytes(n_pushed)
  /\ pending_data_size = PushedBytes(n_pushed) - SentBytes(sent)

\* The sink took the first frame and the second, pushed back, still waits:
\* the counter reads the second frame's length.
C31_Witness ==
  /\ Len(sent) = 1
  /\ write_buf \o high_write_buf = << 2 >>
  /\ pending_data_size = FrameLen(2)

\* C32: with a sink that is ready once a flush has completed, no call of
\* send_data hands a frame to send_inner more than twice (it does not go on
\* popping and re-queuing the same frame), and a call that returns Ok has
\* either emptied both write buffers or stopped at a frame that met
\* back-pressure while the flush was pending.
C32_SendDataTerminates ==
  /\ "spin" \notin hist
  /\ "send_data_left" \notin hist

\* A frame was pushed back, the flush completed, the frame was popped again
\* and the sink took it; both frames went out.
C32_Witness ==
  /\ "repop" \in hist
  /\ Len(sent) = MaxMsgs
  /\ write_buf = << >> /\ high_write_buf = << >>
  /\ "sink_err" \notin hist

\* C33: once the channel to a configured user handler has been found
\* disconnected, the substream is dead and has finished in that poll, and no
\* frame was read and no command taken after the finding.
C33_HandlerGone ==
  "handler_gone" \in hist =>
    /\ dead
    /\ phase = "done"
    /\ "read_after_gone" \notin hist
    /\ "cmd_after_gone" \notin hist

\* A handler was found gone while a frame and a Close command were waiting:
\* both are still there.
C33_Witness ==
  /\ "handler_gone" \in hist
  /\ phase = "done"
  /\ n_read < n_frames
  /\ event_receiver.High # << >>
====
